---- MODULE Spec2Model ----
(***************************************************************************)
(* Model of the guest-facing TCP capability of IceCore                     *)
(* (src/src/lssa/ns/tcp.rs): the two slab tables of TcpImpl, the six       *)
(* operations a guest can call, the tasks they spawn on the single         *)
(* threaded executor, and the supervisor tearing the application down.     *)
(***************************************************************************)
EXTENDS Integers, Sequences, FiniteSets, TLC

(* ---------------------------------------------------------------------- *)
(* Bounds of the model                                                     *)
(* ---------------------------------------------------------------------- *)

\* connections the listeners accept in one behaviour
MaxConns == 2
\* read/write calls that are accepted (spawn a task) in one behaviour
MaxOps == 2
\* longest buffer a read returns or a write sends
MaxLen == 1
\* size of the guest's linear memory, in bytes
MemLen == 2
\* width of the machine word `usize` in the model.  The targets have 32 or
\* 64 bits; the model keeps the two's complement shape of `as usize` and of
\* wrapping addition with a narrower word, wide enough that every length,
\* index and memory size of the model is far below 2^(UsizeBits-1).
UsizeBits == 6

UsizeMod == 2 ^ UsizeBits

(* ---------------------------------------------------------------------- *)
(* Inputs a guest can pass                                                 *)
(* ---------------------------------------------------------------------- *)

GoodAddr  == "127.0.0.1:8080"
OtherAddr == "0.0.0.0:8080"
BadAddr   == "not-an-address"
Addrs == {GoodAddr, OtherAddr, BadAddr}

\* callback descriptors (cb_target, cb_data) the guest registers with listen,
\* read and write
ListenCbs == {[target |-> 1, data |-> 10]}
ReadCbs == {[target |-> 2, data |-> 20]}
WriteCbs == {[target |-> 3, data |-> 30]}
NoCb == [target |-> 0, data |-> 0]

\* 32-bit signed handles and lengths the guest passes: the valid ones and
\* the negative and out-of-range ones
Ids == -1 .. MaxConns - 1
Lens == -1 .. MaxLen
Ptrs == {-1, 0, MemLen - 1, MemLen}
WritePtrs == {0, MemLen}

\* bytes that travel over a connection
Bytes == {1}
RECURSIVE SeqsUpTo(_)
SeqsUpTo(n) ==
    IF n = 0 THEN {<<>>}
    ELSE LET shorter == SeqsUpTo(n - 1)
         IN  shorter \cup {Append(s, b) : s \in {t \in shorter : Len(t) = n - 1}, b \in Bytes}

(* ---------------------------------------------------------------------- *)
(* Conversions                                                             *)
(* ---------------------------------------------------------------------- *)

\* `x as usize` of an i32: sign extension, then reinterpretation
AsUsize(i) == IF i < 0 THEN i + UsizeMod ELSE i

\* usize addition as the release build computes it (the debug build panics
\* on overflow instead; both end in a panic of the slice expression)
WrappingAdd(a, b) == (a + b) % UsizeMod

(* ---------------------------------------------------------------------- *)
(* Permissions                                                             *)
(* ---------------------------------------------------------------------- *)

TcpListen(addr) == [tag |-> "TcpListen", addr |-> addr]

\* Application::check_permission: membership in the configured set
CheckPermission(ps, p) == p \in ps

ListenDenied_Never(ps, addr) == FALSE

\* listen, the permission match: Err(_) => return -1
ListenDenied(ps, addr) == ~CheckPermission(ps, TcpListen(addr))

\* addr.parse::<SocketAddr>()
ParsesAsSocketAddr(addr) == addr \in {GoodAddr, OtherAddr}

(* ---------------------------------------------------------------------- *)
(* Slab<T>: entries are Occupied(val) or Vacant(next free key); `next` is  *)
(* the head of the free list.  Keys are 0-based, entries[key + 1].         *)
(* ---------------------------------------------------------------------- *)

Occupied(v) == [occ |-> TRUE, val |-> <<v>>, nxt |-> 0]
Vacant(n)   == [occ |-> FALSE, val |-> <<>>, nxt |-> n]

SlabNew == [entries |-> <<>>, next |-> 0]

SlabContains(slab, key) ==
    /\ key >= 0
    /\ key < Len(slab.entries)
    /\ slab.entries[key + 1].occ

SlabGet(slab, key) == slab.entries[key + 1].val[1]

SlabKeys(slab) == {k \in 0 .. Len(slab.entries) - 1 : slab.entries[k + 1].occ}

\* Slab::insert: the key the value goes to
SlabInsertKey(slab) == slab.next

\* Slab::insert
SlabInsert(slab, v) ==
    LET key == SlabInsertKey(slab)
    IN  IF key >= Len(slab.entries)
        THEN [entries |-> Append(slab.entries, Occupied(v)), next |-> key + 1]
        ELSE [entries |-> [slab.entries EXCEPT ![key + 1] = Occupied(v)],
              next |-> IF slab.entries[key + 1].occ
                       THEN slab.next
                       ELSE slab.entries[key + 1].nxt]

SlabRemove_Sweep(slab, key) ==
    [entries |-> [i \in 1 .. Len(slab.entries) |->
                     IF i >= key + 1 /\ slab.entries[i].occ
                     THEN Vacant(slab.next) ELSE slab.entries[i]],
     next |-> key]

\* Slab::remove of an occupied key
SlabRemove(slab, key) ==
    [entries |-> [slab.entries EXCEPT ![key + 1] = Vacant(slab.next)],
     next |-> key]

\* slab[key] = v  (IndexMut on an occupied key)
SlabSet(slab, key, v) ==
    [slab EXCEPT !.entries[key + 1] = Occupied(v)]

(* ---------------------------------------------------------------------- *)
(* State                                                                   *)
(* ---------------------------------------------------------------------- *)

VARIABLES
    perms,      \* the application's configured permission set
    streams,    \* TcpImpl.streams: Slab<Option<TcpStream>>
    buffers,    \* TcpImpl.buffers: Slab<Box<[u8]>>
    listeners,  \* the accept tasks spawned by listen
    ops,        \* the read/write tasks spawned so far, in spawn order
    nextConn,   \* identity of the next connection a listener accepts
    mem,        \* the guest's linear memory
    mode,       \* "guest": a guest invocation is executing; "idle": the executor polls
    alive,      \* the supervisor still holds the application (Weak::upgrade succeeds)
    panicAt,    \* "none", or the expression whose panic unwound the reactor thread
    ncb,        \* number of guest callbacks invoked so far (invoke2 calls)
    ret,        \* what the guest's last capability call returned to it
    lastCb      \* (target, data, result) of the guest invocation that has just begun

vars == <<perms, streams, buffers, listeners, ops, nextConn, mem, mode, alive,
          panicAt, ncb, ret, lastCb>>

\* Option<TcpStream>: None, or Some(stream) with the connection's identity
None == 0
Some(conn) == conn

\* Option<Value> a capability call returns: None, or Some(Value::I32(v))
NoRet == [has |-> FALSE, val |-> 0]
I32(v) == [has |-> TRUE, val |-> v]

NoCallback == [cb |-> NoCb, result |-> 0]

PermSets == {{}, {TcpListen(GoodAddr), TcpListen(BadAddr)}}

\* TcpImpl::new, a fresh guest memory, the guest's start export running
Init ==
    /\ perms \in PermSets
    /\ streams = SlabNew
    /\ buffers = SlabNew
    /\ listeners = {}
    /\ ops = <<>>
    /\ nextConn = 1
    /\ mem = [i \in 1 .. MemLen |-> 0]
    /\ mode = "guest"
    /\ alive = TRUE
    /\ panicAt = "none"
    /\ ncb = 0
    /\ ret = NoRet
    /\ lastCb = NoCallback

\* a guest invocation is executing on the reactor thread
GuestRunning == mode = "guest" /\ panicAt = "none"

ExecutorPolling_Reentrant == panicAt = "none"

\* the executor is polling its tasks: no guest invocation is on the stack
ExecutorPolling == mode = "idle" /\ panicAt = "none"

\* a panic unwinds the reactor thread at `site`: nothing is returned and the
\* guest invocation, if any, is gone
Panic(site) == panicAt' = site /\ ret' = NoRet /\ lastCb' = NoCallback

\* a capability call returns v to the guest, whose invocation goes on
Return(v) == ret' = v /\ lastCb' = NoCallback /\ UNCHANGED panicAt

\* Application::invoke2(target, data, result): the guest function runs
Invoke2(cb, result) ==
    /\ mode' = "guest"
    /\ ncb' = ncb + 1
    /\ lastCb' = [cb |-> cb, result |-> result]
    /\ ret' = NoRet

(* ---------------------------------------------------------------------- *)
(* Guest calls                                                             *)
(* ---------------------------------------------------------------------- *)

\* TcpListener::bind fails when the application already listens on addr
AlreadyBound(addr) == \E l \in listeners : l.addr = addr

Listen(addr, cb, bindOk) ==
    /\ GuestRunning
    /\ IF ListenDenied(perms, addr)
       THEN /\ Return(I32(-1))
            /\ UNCHANGED listeners
       ELSE IF ~ParsesAsSocketAddr(addr)
       THEN /\ Panic("listen:parse")
            /\ UNCHANGED listeners
       ELSE IF ~bindOk \/ AlreadyBound(addr)
       THEN /\ Panic("listen:bind")
            /\ UNCHANGED listeners
       ELSE /\ listeners' = listeners \cup {[addr |-> addr, cb |-> cb]}
            /\ Return(I32(0))
    /\ UNCHANGED <<perms, streams, buffers, ops, nextConn, mem, mode, alive, ncb>>

Destroy(stream_id) ==
    /\ GuestRunning
    /\ LET key == AsUsize(stream_id)
       IN  IF SlabContains(streams, key)
           THEN /\ streams' = SlabRemove(streams, key)
                /\ Return(NoRet)
           ELSE /\ Panic("destroy:remove")
                /\ UNCHANGED streams
    /\ UNCHANGED <<perms, buffers, listeners, ops, nextConn, mem, mode, alive, ncb>>

ReleaseBuffer(buffer_id) ==
    /\ GuestRunning
    /\ LET key == AsUsize(buffer_id)
       IN  IF SlabContains(buffers, key)
           THEN /\ buffers' = SlabRemove(buffers, key)
                /\ Return(NoRet)
           ELSE /\ Panic("release_buffer:remove")
                /\ UNCHANGED buffers
    /\ UNCHANGED <<perms, streams, listeners, ops, nextConn, mem, mode, alive, ncb>>

TooLong_Strict(buf_len, max_len) == buf_len >= AsUsize(max_len)

\* take_buffer: buf.len() > max_len, max_len being the i32 argument `as usize`
TooLong(buf_len, max_len) == buf_len > AsUsize(max_len)

SliceInBounds_EndOnly(start, end, mem_len) == end <= mem_len

\* &mut memory[start .. end]: the range check of the slice expression
SliceInBounds(start, end, mem_len) == start <= end /\ end <= mem_len

\* target_mem.copy_from_slice(&buf)
CopyFromSlice(m, start, buf) ==
    [i \in 1 .. Len(m) |->
        IF i - 1 >= start /\ i - 1 < start + Len(buf) THEN buf[i - start] ELSE m[i]]

TakeBuffer(buffer_id, target_ptr, max_len) ==
    /\ GuestRunning
    /\ LET key == AsUsize(buffer_id)
       IN  IF ~SlabContains(buffers, key)
           THEN /\ Panic("take_buffer:remove")
                /\ UNCHANGED <<buffers, mem>>
           ELSE LET buf == SlabGet(buffers, key)
                    start == AsUsize(target_ptr)
                    end == WrappingAdd(start, Len(buf))
                IN  /\ buffers' = SlabRemove(buffers, key)
                    /\ IF TooLong(Len(buf), max_len)
                       THEN /\ Panic("take_buffer:max_len")
                            /\ UNCHANGED mem
                       ELSE IF ~SliceInBounds(start, end, Len(mem))
                       THEN /\ Panic("take_buffer:slice")
                            /\ UNCHANGED mem
                       ELSE /\ mem' = CopyFromSlice(mem, start, buf)
                            /\ Return(I32(Len(buf)))
    /\ UNCHANGED <<perms, streams, listeners, ops, nextConn, mode, alive, ncb>>

\* a spawned read or write task that owns the stream it took
PendingOp(kind, key, conn, len, cb) ==
    [st |-> "pending", kind |-> kind, sid |-> key, conn |-> conn, len |-> len, cb |-> cb]

\* read: streams[stream_id].take() leaves None in the slot
ReadTake(slab, key) == SlabSet(slab, key, None)

Read(stream_id, read_len, cb) ==
    /\ GuestRunning
    /\ LET key == AsUsize(stream_id)
       IN  IF ~SlabContains(streams, key)
           THEN /\ Panic("read:index")
                /\ UNCHANGED <<streams, ops>>
           ELSE IF SlabGet(streams, key) = None
           THEN /\ Panic("read:unwrap")
                /\ UNCHANGED <<streams, ops>>
           ELSE IF read_len < 0
           THEN \* vec![0; len] of a length above isize::MAX: capacity overflow
                /\ streams' = ReadTake(streams, key)
                /\ Panic("read:alloc")
                /\ UNCHANGED ops
           ELSE /\ Len(ops) < MaxOps
                /\ streams' = ReadTake(streams, key)
                /\ ops' = Append(ops, PendingOp("read", key, SlabGet(streams, key),
                                                read_len, cb))
                /\ Return(I32(0))
    /\ UNCHANGED <<perms, buffers, listeners, nextConn, mem, mode, alive, ncb>>

\* InvokeContext::extract_bytes(1, 2): the (ptr, len) pair is inside guest memory
ExtractBytesOk(ptr, len) == ptr >= 0 /\ len >= 0 /\ ptr + len <= MemLen

\* write: streams[stream_id].take() leaves None in the slot
WriteTake(slab, key) == SlabSet(slab, key, None)

Write(stream_id, buf_ptr, buf_len, cb) ==
    /\ GuestRunning
    /\ LET key == AsUsize(stream_id)
       IN  IF ~ExtractBytesOk(buf_ptr, buf_len)
           THEN /\ Panic("write:extract_bytes")
                /\ UNCHANGED <<streams, ops>>
           ELSE IF ~SlabContains(streams, key)
           THEN /\ Panic("write:index")
                /\ UNCHANGED <<streams, ops>>
           ELSE IF SlabGet(streams, key) = None
           THEN /\ Panic("write:unwrap")
                /\ UNCHANGED <<streams, ops>>
           ELSE /\ Len(ops) < MaxOps
                /\ streams' = WriteTake(streams, key)
                /\ ops' = Append(ops, PendingOp("write", key, SlabGet(streams, key),
                                                buf_len, cb))
                /\ Return(I32(0))
    /\ UNCHANGED <<perms, buffers, listeners, nextConn, mem, mode, alive, ncb>>

\* the guest function returns: control is back in the executor
GuestReturn ==
    /\ GuestRunning
    /\ mode' = "idle"
    /\ ret' = NoRet
    /\ lastCb' = NoCallback
    /\ UNCHANGED <<perms, streams, buffers, listeners, ops, nextConn, mem, alive,
                   panicAt, ncb>>

(* ---------------------------------------------------------------------- *)
(* Tasks on the executor                                                   *)
(* ---------------------------------------------------------------------- *)

AcceptResult_Next(stream_id) == stream_id + 1

\* listen, the for_each closure: the result passed to invoke2 is stream_id
AcceptResult(stream_id) == stream_id

\* listener.incoming().for_each(...): one connection is accepted on l
Accept(l) ==
    /\ ExecutorPolling
    /\ l \in listeners
    /\ nextConn <= MaxConns
    /\ LET stream_id == SlabInsertKey(streams)
       IN  /\ streams' = SlabInsert(streams, Some(nextConn))
           /\ nextConn' = nextConn + 1
           /\ IF alive
              THEN /\ Invoke2(l.cb, AcceptResult(stream_id))
                   /\ UNCHANGED panicAt
              ELSE \* app_weak.upgrade().unwrap()
                   /\ Panic("listen:upgrade")
                   /\ UNCHANGED <<mode, ncb>>
    /\ UNCHANGED <<perms, buffers, listeners, ops, mem, alive>>

\* a task that resolved is dropped by the executor, with all it owned
Finished(i) ==
    [ops EXCEPT ![i] = [PendingOp("", 0, 0, 0, NoCb) EXCEPT !.st = "done"]]

ReadReinstall_Skip(slab, key, conn) == slab

\* read, the map closure: streams[stream_id] = Some(stream)
ReadReinstall(slab, key, conn) == SlabSet(slab, key, Some(conn))

\* read, the map_err closure: it leaves the stream table as it is
ReadErrStreams(slab, key, conn) == slab

\* read, the map closure: the result passed to invoke2 is buffer_id
ReadCbResult(buffer_id) == buffer_id

\* the AsyncReadFuture of task i resolves: Ok((stream, data)) or Err(e)
ReadDone(i, ok, data) ==
    /\ ExecutorPolling
    /\ i \in 1 .. Len(ops)
    /\ ops[i].st = "pending"
    /\ ops[i].kind = "read"
    /\ Len(data) <= ops[i].len
    /\ ok \/ data = <<>>
    /\ LET op == ops[i]
       IN  IF ok /\ ~SlabContains(streams, op.sid)
           THEN \* streams.borrow_mut()[stream_id]: invalid key
                /\ Panic("read:reinstall")
                /\ ops' = Finished(i)
                /\ UNCHANGED <<streams, buffers, mode, ncb>>
           ELSE /\ streams' = IF ok THEN ReadReinstall(streams, op.sid, op.conn)
                                    ELSE ReadErrStreams(streams, op.sid, op.conn)
                /\ buffers' = IF ok THEN SlabInsert(buffers, data) ELSE buffers
                /\ IF alive
                   THEN /\ Invoke2(op.cb, IF ok THEN ReadCbResult(SlabInsertKey(buffers))
                                                ELSE -1)
                        /\ ops' = Finished(i)
                        /\ UNCHANGED panicAt
                   ELSE \* app_weak.upgrade().unwrap()
                        /\ Panic("read:upgrade")
                        /\ ops' = Finished(i)
                        /\ UNCHANGED <<mode, ncb>>
    /\ UNCHANGED <<perms, listeners, nextConn, mem, alive>>

\* write, the map closure: streams[stream_id] = Some(a)
WriteReinstall(slab, key, conn) == SlabSet(slab, key, Some(conn))

\* write, the or_else closure: it leaves the stream table as it is
WriteErrStreams(slab, key, conn) == slab

WriteCbResult_Zero(data_len) == 0

\* write, the map closure: the result passed to invoke2 is data_len
WriteCbResult(data_len) == data_len

\* the write_all future of task i resolves: Ok((stream, buf)) or Err(e)
WriteDone(i, ok) ==
    /\ ExecutorPolling
    /\ i \in 1 .. Len(ops)
    /\ ops[i].st = "pending"
    /\ ops[i].kind = "write"
    /\ LET op == ops[i]
       IN  IF ok /\ ~SlabContains(streams, op.sid)
           THEN \* streams.borrow_mut()[stream_id]: invalid key
                /\ Panic("write:reinstall")
                /\ ops' = Finished(i)
                /\ UNCHANGED <<streams, mode, ncb>>
           ELSE /\ streams' = IF ok THEN WriteReinstall(streams, op.sid, op.conn)
                                    ELSE WriteErrStreams(streams, op.sid, op.conn)
                /\ IF alive
                   THEN /\ Invoke2(op.cb, IF ok THEN WriteCbResult(op.len) ELSE -1)
                        /\ ops' = Finished(i)
                        /\ UNCHANGED panicAt
                   ELSE \* app_weak.upgrade().unwrap()
                        /\ Panic("write:upgrade")
                        /\ ops' = Finished(i)
                        /\ UNCHANGED <<mode, ncb>>
    /\ UNCHANGED <<perms, buffers, listeners, nextConn, mem, alive>>

\* the supervisor drops the application: every Weak::upgrade fails from now on
Teardown ==
    /\ ExecutorPolling
    /\ alive
    /\ alive' = FALSE
    /\ UNCHANGED <<perms, streams, buffers, listeners, ops, nextConn, mem, mode,
                   panicAt, ncb, ret, lastCb>>

(* ---------------------------------------------------------------------- *)
(* The response a guest builds for one HTTP request                        *)
(* (src/src/glue/response.rs)                                              *)
(* ---------------------------------------------------------------------- *)

\* longest body a guest sets
MaxBody == 2

\* status codes a guest passes to set_status (u16), invalid ones included
Statuses == {99, 200, 404, 600}
Paths == {"index.html"}
\* header names as glue::header::transform_name returns them, and raw values
HeaderNames == {"Content-Length"}
HeaderValues == {"9"}
CookieNames == {"sid"}
CookieValues == {"1"}
\* the If-None-Match header of the request: absent, `*`, no item, one item
IfNoneMatches == {"absent", "any", "empty", "item"}
ETag == "v1"

\* Option<T>
OptNone == <<>>
OptSome(v) == <<v>>

VARIABLES
    resp,       \* the Response behind the pointer the guest holds
    hyperResp,  \* the materialized reply, once into_hyper_response ran
    respAt,     \* "building", "consumed" (materialized) or "panic"
    providers   \* the StreamProviders returned to the guest, by channel

responseVars == <<resp, hyperResp, respAt, providers>>

\* Response::new
ResponseNew ==
    [body |-> <<>>, file |-> OptNone, status |-> 200, headers |-> {},
     cookies |-> {}, stream_rx |-> OptNone]

\* ice_glue_create_response
ResponseInit ==
    /\ resp = ResponseNew
    /\ hyperResp = OptNone
    /\ respAt = "building"
    /\ providers = {}

\* Headers::set / set_raw: the header replaces one of the same name
HeadersSet(headers, name, lines) ==
    {h \in headers : h.name # name} \cup {[name |-> name, lines |-> lines]}

\* HashMap::insert
MapInsert(map, k, v) == {e \in map : e.k # k} \cup {[k |-> k, v |-> v]}

\* Response::add_header
AddHeader(k, v) ==
    /\ respAt = "building"
    /\ resp' = [resp EXCEPT !.headers = HeadersSet(@, k, {v})]
    /\ UNCHANGED <<hyperResp, respAt, providers>>

\* Response::set_cookie
SetCookie(k, v) ==
    /\ respAt = "building"
    /\ resp' = [resp EXCEPT !.cookies = MapInsert(@, k, v)]
    /\ UNCHANGED <<hyperResp, respAt, providers>>

\* ice_glue_response_set_body: a null pointer or len = 0 sets the empty body
SetBodyArg(data_null, data) == IF data_null \/ Len(data) = 0 THEN <<>> ELSE data

\* Response::set_body through ice_glue_response_set_body
SetBody(data_null, data) ==
    /\ respAt = "building"
    /\ resp' = [resp EXCEPT !.body = SetBodyArg(data_null, data)]
    /\ UNCHANGED <<hyperResp, respAt, providers>>

\* ice_glue_response_consume_rendered_template: set_body(content.as_bytes())
ConsumeRenderedTemplate(content) ==
    /\ respAt = "building"
    /\ resp' = [resp EXCEPT !.body = content]
    /\ UNCHANGED <<hyperResp, respAt, providers>>

\* Response::set_file
SetFile(path) ==
    /\ respAt = "building"
    /\ resp' = [resp EXCEPT !.file = OptSome(path)]
    /\ UNCHANGED <<hyperResp, respAt, providers>>

\* Response::set_status
SetStatus(status) ==
    /\ respAt = "building"
    /\ resp' = [resp EXCEPT !.status = status]
    /\ UNCHANGED <<hyperResp, respAt, providers>>

StreamEnabled_Never(r) == FALSE

\* Response::stream: self.stream_rx.is_some()
StreamEnabled(r) == r.stream_rx # OptNone

\* Response::stream through ice_glue_response_stream; the channel of a new
\* StreamProvider is identified by its number
Stream ==
    /\ respAt = "building"
    /\ IF StreamEnabled(resp)
       THEN /\ respAt' = "panic"
            /\ UNCHANGED <<resp, providers>>
       ELSE LET ch == Cardinality(providers) + 1
            IN  /\ resp' = [resp EXCEPT !.stream_rx = OptSome(ch)]
                /\ providers' = providers \cup {ch}
                /\ UNCHANGED respAt
    /\ UNCHANGED hyperResp

ReplyStatus_Default(status) == 200

\* into_hyper_response: StatusCode::try_from(self.status), which accepts
\* 100..599, or InternalServerError
ReplyStatus(status) == IF 100 <= status /\ status <= 599 THEN status ELSE 500

\* into_hyper_response: the etag taken from the request's If-None-Match
RequestETag(if_none_match) ==
    IF if_none_match = "item" THEN OptSome(ETag) ELSE OptNone

\* into_hyper_response: the cookie lines k + "=" + v
CookiesVec(cookies) == {e.k \o "=" \o e.v : e \in cookies}

\* a materialization that looks at the stream before the file
IntoHyperResponse_StreamFirst(if_none_match) ==
    /\ respAt = "building"
    /\ LET headers == HeadersSet(HeadersSet(resp.headers, "X-Powered-By", {"Ice Core"}),
                                 "Set-Cookie", CookiesVec(resp.cookies))
           base == [status |-> ReplyStatus(resp.status), headers |-> headers,
                    kind |-> "bytes", bytes |-> <<>>, rx |-> OptNone,
                    path |-> OptNone, etag |-> OptNone]
       IN  hyperResp' = OptSome(
               IF resp.stream_rx # OptNone
               THEN [base EXCEPT !.kind = "stream", !.rx = resp.stream_rx]
               ELSE IF resp.file # OptNone
               THEN [base EXCEPT !.kind = "file", !.path = resp.file,
                                 !.etag = RequestETag(if_none_match)]
               ELSE [base EXCEPT !.headers = HeadersSet(headers, "Content-Length",
                                                        {ToString(Len(resp.body))}),
                                 !.bytes = resp.body])
    /\ respAt' = "consumed"
    /\ UNCHANGED <<resp, providers>>

\* Response::into_hyper_response; the reply for a file is what
\* static_file::fetch_raw_unchecked makes of (resp, path, etag)
IntoHyperResponse(if_none_match) ==
    /\ respAt = "building"
    /\ LET headers == HeadersSet(HeadersSet(resp.headers, "X-Powered-By", {"Ice Core"}),
                                 "Set-Cookie", CookiesVec(resp.cookies))
           status == ReplyStatus(resp.status)
           base == [status |-> status, headers |-> headers, kind |-> "bytes",
                    bytes |-> <<>>, rx |-> OptNone, path |-> OptNone, etag |-> OptNone]
       IN  hyperResp' = OptSome(
               IF resp.file # OptNone
               THEN [base EXCEPT !.kind = "file", !.path = resp.file,
                                 !.etag = RequestETag(if_none_match)]
               ELSE IF resp.stream_rx # OptNone
               THEN [base EXCEPT !.kind = "stream", !.rx = resp.stream_rx]
               ELSE [base EXCEPT !.headers = HeadersSet(headers, "Content-Length",
                                                        {ToString(Len(resp.body))}),
                                 !.bytes = resp.body])
    /\ respAt' = "consumed"
    /\ UNCHANGED <<resp, providers>>

(* ---------------------------------------------------------------------- *)
(* The Redis key-value backend (src/src/storage/backend/redis.rs):         *)
(* producers send Ops to the worker's mailbox, the worker hands each to a  *)
(* thread-pool job, the job runs the command and answers on the Op's       *)
(* one-shot channel.                                                       *)
(* ---------------------------------------------------------------------- *)

\* commands submitted in one behaviour
MaxKvOps == 3

KvKeys == {"k1", "k2"}
KvFields == {"f"}
KvValues == {"a"}

\* enum Command, without Stop (sent by Drop only)
Commands ==
    [tag : {"Get", "Remove"}, k : KvKeys, mk : {""}, v : {""}]
    \cup [tag : {"Set"}, k : KvKeys, mk : {""}, v : KvValues]
    \cup [tag : {"Hget", "Hremove"}, k : KvKeys, mk : KvFields, v : {""}]
    \cup [tag : {"Hset"}, k : KvKeys, mk : KvFields, v : KvValues]

\* enum OpResult
OpError == [tag |-> "Error", val |-> OptNone]
OpValue(v) == [tag |-> "Value", val |-> v]
NoResult == [tag |-> "", val |-> OptNone]

\* a key of the Redis server: missing, a string, or a hash of fields
RedisNil == [type |-> "none", str |-> "", hash |-> {}]
RedisString(v) == [type |-> "string", str |-> v, hash |-> {}]
RedisHash(h) == IF h = {} THEN RedisNil ELSE [type |-> "hash", str |-> "", hash |-> h]

\* the value of field mk in a hash, as Option<String>
HashField(h, mk) ==
    IF \E e \in h : e.k = mk THEN OptSome((CHOOSE e \in h : e.k = mk).v) ELSE OptNone

VARIABLES
    redis,           \* the keys of the Redis server
    kvOps,           \* every Op sent on op_tx, in send order, with where it is
    worker,          \* "running" or "stopped": RedisStorage::worker
    storageDropped   \* Drop for RedisStorage ran: Stop is queued behind the Ops

kvVars == <<redis, kvOps, worker, storageDropped>>

\* RedisStorage::new: the worker is spawned, the mailbox is empty
KvInit ==
    /\ redis = [k \in KvKeys |-> RedisNil]
    /\ kvOps = <<>>
    /\ worker = "running"
    /\ storageDropped = FALSE

\* the one-shot channel of Op i was resolved: a result was sent, or the
\* sender was dropped
Resolved(i) == kvOps[i].at \in {"replied", "canceled"}

\* Command::Stop, which only Drop sends
StopCommand == [tag |-> "Stop", k |-> "", mk |-> "", v |-> ""]

\* the commands of RedisHashMapExt, which sends on its own clone of op_tx
HashCommands == {cmd \in Commands : cmd.tag \in {"Hget", "Hset", "Hremove"}}

\* the Ops sent so far, Stop not counted
Submitted == {i \in 1 .. Len(kvOps) : kvOps[i].cmd # StopCommand}

\* Op::run: a new one-shot channel, the Op sent on a clone of op_tx.  `after`
\* remembers the Ops whose channel was resolved before this one was sent.
\* Once RedisStorage is dropped only a holder of its hash-map extension can
\* still run a command; once the worker has returned the receiver is gone
\* and send(op).unwrap() panics in the caller.
Run(cmd) ==
    /\ storageDropped => cmd \in HashCommands
    /\ Cardinality(Submitted) < MaxKvOps
    /\ kvOps' = Append(kvOps, [cmd |-> cmd,
                               at |-> IF worker = "stopped" THEN "send_panic" ELSE "mailbox",
                               result |-> NoResult,
                               after |-> {i \in 1 .. Len(kvOps) : Resolved(i)}])
    /\ UNCHANGED <<redis, worker, storageDropped>>

\* Drop for RedisStorage: Command::Stop, with no result channel, is sent
\* behind every Op sent so far
Drop ==
    /\ ~storageDropped
    /\ storageDropped' = TRUE
    /\ kvOps' = Append(kvOps, [cmd |-> StopCommand, at |-> "mailbox",
                               result |-> NoResult, after |-> {}])
    /\ UNCHANGED <<redis, worker>>

\* the Ops waiting in the mailbox (std::sync::mpsc, first in first out)
Mailbox == {i \in 1 .. Len(kvOps) : kvOps[i].at = "mailbox"}

\* RedisStorage::worker, one turn of the loop: op_rx.recv(), then return on
\* Stop or thread_pool.execute(job).  The return drops op_rx and, with it,
\* every Op still in the mailbox and the sender of its channel.
WorkerRecv ==
    /\ worker = "running"
    /\ Mailbox # {}
    /\ LET i == CHOOSE j \in Mailbox : \A m \in Mailbox : j <= m
       IN  IF kvOps[i].cmd = StopCommand
           THEN /\ worker' = "stopped"
                /\ kvOps' = [j \in 1 .. Len(kvOps) |->
                                IF j = i THEN [kvOps[j] EXCEPT !.at = "stop"]
                                ELSE IF j \in Mailbox THEN [kvOps[j] EXCEPT !.at = "canceled"]
                                ELSE kvOps[j]]
           ELSE /\ kvOps' = [kvOps EXCEPT ![i].at = "pool"]
                /\ UNCHANGED worker
    /\ UNCHANGED <<redis, storageDropped>>

\* what the Redis server answers to a command, as the job's match arms turn
\* it into an OpResult: GET and HGET give the value, the writes give
\* Value(None), a command on a key of the wrong type is an error
CommandResult(db, cmd) ==
    LET e == db[cmd.k]
    IN  CASE cmd.tag = "Get" ->
                IF e.type = "hash" THEN OpError
                ELSE OpValue(IF e.type = "string" THEN OptSome(e.str) ELSE OptNone)
          [] cmd.tag \in {"Set", "Remove"} -> OpValue(OptNone)
          [] cmd.tag = "Hget" ->
                IF e.type = "string" THEN OpError ELSE OpValue(HashField(e.hash, cmd.mk))
          [] OTHER ->
                IF e.type = "string" THEN OpError ELSE OpValue(OptNone)

\* the keys of the Redis server after a command that did not fail
CommandEffect(db, cmd) ==
    LET e == db[cmd.k]
    IN  CASE cmd.tag = "Set" -> [db EXCEPT ![cmd.k] = RedisString(cmd.v)]
          [] cmd.tag = "Remove" -> [db EXCEPT ![cmd.k] = RedisNil]
          [] cmd.tag = "Hset" /\ e.type # "string" ->
                [db EXCEPT ![cmd.k] = RedisHash(MapInsert(e.hash, cmd.mk, cmd.v))]
          [] cmd.tag = "Hremove" /\ e.type # "string" ->
                [db EXCEPT ![cmd.k] = RedisHash({x \in e.hash : x.k # cmd.mk})]
          [] OTHER -> db

\* the job of Op i on a pool thread: conn_pool.get().unwrap() panics when
\* the pool gives no connection (conn_ok = FALSE) and the Op, with the
\* sender of its channel, is dropped; otherwise the command runs, fails on
\* the connection (cmd_ok = FALSE) or is answered by the server, and the
\* result is sent on the Op's own channel
Job(i, conn_ok, cmd_ok) ==
    /\ i \in 1 .. Len(kvOps)
    /\ kvOps[i].at = "pool"
    /\ IF ~conn_ok
       THEN /\ kvOps' = [kvOps EXCEPT ![i].at = "canceled"]
            /\ UNCHANGED redis
       ELSE IF ~cmd_ok
       THEN /\ kvOps' = [kvOps EXCEPT ![i].at = "replied", ![i].result = OpError]
            /\ UNCHANGED redis
       ELSE /\ kvOps' = [kvOps EXCEPT ![i].at = "replied",
                                      ![i].result = CommandResult(redis, kvOps[i].cmd)]
            /\ redis' = CommandEffect(redis, kvOps[i].cmd)
    /\ UNCHANGED <<worker, storageDropped>>

\* what a future resolves to: Ok(item) or Err
FutureOk(item) == [ok |-> TRUE, item |-> item]
FutureErr == [ok |-> FALSE, item |-> OptNone]

\* KVStorage::get / HashMapExt::get: .map(|v| if let OpResult::Value(v) = v
\* { v } else { None }).map_err(..) on the receiver of the channel
GetFuture(op) ==
    IF op.at = "canceled" THEN FutureErr
    ELSE IF op.result.tag = "Value" THEN FutureOk(op.result.val)
    ELSE FutureOk(OptNone)

\* KVStorage::set, remove / HashMapExt::set, remove: .map(|_| ()).map_err(..)
UnitFuture(op) ==
    IF op.at = "canceled" THEN FutureErr ELSE FutureOk(OptNone)

\* the future the caller of Op i holds, once the channel is resolved
FutureOf(i) ==
    IF kvOps[i].cmd.tag \in {"Get", "Hget"} THEN GetFuture(kvOps[i]) ELSE UnitFuture(kvOps[i])

(* ---------------------------------------------------------------------- *)
(* The request a guest reads (src/src/glue/request.rs): every read returns *)
(* a pointer to a buffer the host owns                                     *)
(* ---------------------------------------------------------------------- *)

\* addresses the allocator can give to a CString
HeapSize == 4
\* pointers a guest asks for in one invocation
MaxHeld == 2

\* the headers of the request: one line each, except "accept" (two lines)
\* and "x-bin" (one line that is not UTF-8)
OneLineHeaders == {"host"}
RequestHeaderNames == OneLineHeaders \cup {"accept", "x-bin", "missing"}
RequestCookieNames == {"sid", "missing"}
SessionKeys == {"user"}
\* a second key, for a guest that works with two session items
MoreSessionKeys == SessionKeys \cup {"cart"}
SessionValues == {"u1", "u2"}

\* pointers handed to the guest: into a field of the Request, or to a
\* CString on the heap (a null pointer is never kept)
FieldPtr(field) == [region |-> field, addr |-> 0]
HeapPtr(addr) == [region |-> "heap", addr |-> addr]

\* HashMap::get
MapGet(map, k) ==
    IF \E e \in map : e.k = k THEN OptSome((CHOOSE e \in map : e.k = k).v) ELSE OptNone

VARIABLES
    cache,      \* Request.cache: the address of the CString behind each entry
    heap,       \* address -> the CString allocated there, if any
    session,    \* Request.session: the data of the session, if any
    stats,      \* context.stats, serialized
    handed      \* the pointers returned to the guest in the current invocation,
                \* each with the bytes behind it when it was returned

requestVars == <<cache, heap, session, stats, handed>>

\* RequestCache::default
RequestCacheDefault == [stats |-> OptNone, session_items |-> {}, headers |-> {}]

\* a Request as the HTTP front end hands it over, a guest invocation begins
RequestInit ==
    /\ cache = RequestCacheDefault
    /\ heap = [a \in 1 .. HeapSize |-> OptNone]
    /\ session \in {OptNone, OptSome({})}
    /\ stats = "{}"
    /\ handed = {}

\* the addresses no live CString occupies
FreeAddrs == {a \in 1 .. HeapSize : heap[a] = OptNone}

\* dropping the CString an Option or a map entry held
Freed(h, old) == [a \in 1 .. HeapSize |-> IF OptSome(a) = old THEN OptNone ELSE h[a]]

\* the guest got `ptr`, which points to `bytes`
Hand(ptr, bytes) ==
    /\ Cardinality(handed) < MaxHeld
    /\ handed' = handed \cup {[ptr |-> ptr, bytes |-> bytes]}

\* ice_glue_request_get_stats: the new CString replaces (and drops) the one
\* cache.stats held
GetStats(addr) ==
    /\ addr \in FreeAddrs
    /\ heap' = [Freed(heap, cache.stats) EXCEPT ![addr] = OptSome(stats)]
    /\ cache' = [cache EXCEPT !.stats = OptSome(addr)]
    /\ Hand(HeapPtr(addr), stats)
    /\ UNCHANGED <<session, stats>>

\* ice_glue_request_get_uri, get_method, get_remote_addr, get_cookie: a
\* pointer into a field of the Request, or null for a cookie that is not there
GetField(field) ==
    /\ field \in {"uri", "method", "remote_addr"} \cup {"cookie:" \o k : k \in RequestCookieNames}
    /\ IF field = "cookie:missing"
       THEN UNCHANGED handed
       ELSE Hand(FieldPtr(field), field)
    /\ UNCHANGED <<cache, heap, session, stats>>

\* ice_glue_request_set_custom_stat
SetCustomStat ==
    /\ stats' = "{custom}"
    /\ UNCHANGED <<cache, heap, session, handed>>

\* ice_glue_request_get_header: a header with one UTF-8 line is copied into
\* a new CString, which replaces (and drops) the cache entry of the same name
GetHeader(k, addr) ==
    /\ IF k \in OneLineHeaders
       THEN /\ addr \in FreeAddrs
            /\ heap' = [Freed(heap, MapGet(cache.headers, k)) EXCEPT ![addr] = OptSome(k)]
            /\ cache' = [cache EXCEPT !.headers = MapInsert(@, k, addr)]
            /\ Hand(HeapPtr(addr), k)
       ELSE UNCHANGED <<cache, heap, handed>>
    /\ UNCHANGED <<session, stats>>

\* ice_glue_request_get_session_item: the value of the session is copied
\* into a new CString, which replaces (and drops) the cache entry of the key
GetSessionItem(k, addr) ==
    /\ IF session # OptNone /\ MapGet(session[1], k) # OptNone
       THEN /\ addr \in FreeAddrs
            /\ heap' = [Freed(heap, MapGet(cache.session_items, k))
                           EXCEPT ![addr] = MapGet(session[1], k)]
            /\ cache' = [cache EXCEPT !.session_items = MapInsert(@, k, addr)]
            /\ Hand(HeapPtr(addr), MapGet(session[1], k)[1])
       ELSE UNCHANGED <<cache, heap, handed>>
    /\ UNCHANGED <<session, stats>>

\* a set_session_item whose null value empties the session
SetSessionItem_ClearOnNull(k, value) ==
    /\ session' = IF session = OptNone THEN session
                  ELSE IF value = OptNone
                  THEN OptSome({})
                  ELSE OptSome(MapInsert(session[1], k, value[1]))
    /\ UNCHANGED <<cache, heap, stats, handed>>

\* ice_glue_request_set_session_item: a null value removes the key
SetSessionItem(k, value) ==
    /\ session' = IF session = OptNone THEN session
                  ELSE IF value = OptNone
                  THEN OptSome({e \in session[1] : e.k # k})
                  ELSE OptSome(MapInsert(session[1], k, value[1]))
    /\ UNCHANGED <<cache, heap, stats, handed>>

\* the guest invocation returns: the guest holds no pointer any more
InvocationEnds ==
    /\ handed # {}
    /\ handed' = {}
    /\ UNCHANGED <<cache, heap, session, stats>>

(* ---------------------------------------------------------------------- *)
(* Specifications: each subsystem runs on its own, the others stay as they *)
(* were constructed                                                        *)
(* ---------------------------------------------------------------------- *)

Next ==
    \/ \E addr \in Addrs, cb \in ListenCbs, bindOk \in BOOLEAN :
           Listen(addr, cb, bindOk) /\ UNCHANGED <<responseVars, kvVars, requestVars>>
    \/ \E stream_id \in Ids : Destroy(stream_id) /\ UNCHANGED <<responseVars, kvVars, requestVars>>
    \/ \E buffer_id \in Ids : ReleaseBuffer(buffer_id) /\ UNCHANGED <<responseVars, kvVars, requestVars>>
    \/ \E buffer_id \in Ids, target_ptr \in Ptrs, max_len \in Lens :
           TakeBuffer(buffer_id, target_ptr, max_len) /\ UNCHANGED <<responseVars, kvVars, requestVars>>
    \/ \E stream_id \in Ids, read_len \in Lens, cb \in ReadCbs :
           Read(stream_id, read_len, cb) /\ UNCHANGED <<responseVars, kvVars, requestVars>>
    \/ \E stream_id \in Ids, buf_ptr \in WritePtrs, buf_len \in Lens, cb \in WriteCbs :
           Write(stream_id, buf_ptr, buf_len, cb) /\ UNCHANGED <<responseVars, kvVars, requestVars>>
    \/ GuestReturn /\ UNCHANGED <<responseVars, kvVars, requestVars>>
    \/ \E l \in listeners : Accept(l) /\ UNCHANGED <<responseVars, kvVars, requestVars>>
    \/ \E i \in 1 .. MaxOps, ok \in BOOLEAN, data \in SeqsUpTo(MaxLen) :
           ReadDone(i, ok, data) /\ UNCHANGED <<responseVars, kvVars, requestVars>>
    \/ \E i \in 1 .. MaxOps, ok \in BOOLEAN : WriteDone(i, ok) /\ UNCHANGED <<responseVars, kvVars, requestVars>>
    \/ Teardown /\ UNCHANGED <<responseVars, kvVars, requestVars>>

\* a request nobody reads
RequestIdle == RequestInit /\ session = OptNone

\* the TCP capability of an application that never calls it
TcpIdle == Init /\ perms = {}

SpecInit == Init /\ ResponseInit /\ KvInit /\ RequestIdle

Spec == SpecInit /\ [][Next]_vars

ResponseNext ==
    \/ \E k \in HeaderNames, v \in HeaderValues : AddHeader(k, v) /\ UNCHANGED <<vars, kvVars, requestVars>>
    \/ \E k \in CookieNames, v \in CookieValues : SetCookie(k, v) /\ UNCHANGED <<vars, kvVars, requestVars>>
    \/ \E data_null \in BOOLEAN, data \in SeqsUpTo(MaxBody) :
           SetBody(data_null, data) /\ UNCHANGED <<vars, kvVars, requestVars>>
    \/ \E content \in SeqsUpTo(MaxBody) : ConsumeRenderedTemplate(content) /\ UNCHANGED <<vars, kvVars, requestVars>>
    \/ \E path \in Paths : SetFile(path) /\ UNCHANGED <<vars, kvVars, requestVars>>
    \/ \E status \in Statuses : SetStatus(status) /\ UNCHANGED <<vars, kvVars, requestVars>>
    \/ Stream /\ UNCHANGED <<vars, kvVars, requestVars>>
    \/ \E if_none_match \in IfNoneMatches : IntoHyperResponse(if_none_match) /\ UNCHANGED <<vars, kvVars, requestVars>>

SpecResponseInit == TcpIdle /\ ResponseInit /\ KvInit /\ RequestIdle

SpecResponse == SpecResponseInit /\ [][ResponseNext]_responseVars

KvNext ==
    \/ \E cmd \in Commands : Run(cmd) /\ UNCHANGED <<vars, responseVars, requestVars>>
    \/ Drop /\ UNCHANGED <<vars, responseVars, requestVars>>
    \/ WorkerRecv /\ UNCHANGED <<vars, responseVars, requestVars>>
    \/ \E i \in 1 .. MaxKvOps + 1, conn_ok \in BOOLEAN, cmd_ok \in BOOLEAN :
           Job(i, conn_ok, cmd_ok) /\ UNCHANGED <<vars, responseVars, requestVars>>

SpecKvInit == TcpIdle /\ ResponseInit /\ KvInit /\ RequestIdle

SpecKv == SpecKvInit /\ [][KvNext]_kvVars

RequestNext ==
    \/ \E addr \in 1 .. HeapSize : GetStats(addr) /\ UNCHANGED <<vars, responseVars, kvVars>>
    \/ \E field \in {"uri", "method", "remote_addr", "cookie:sid", "cookie:missing"} :
           GetField(field) /\ UNCHANGED <<vars, responseVars, kvVars>>
    \/ SetCustomStat /\ UNCHANGED <<vars, responseVars, kvVars>>
    \/ \E k \in RequestHeaderNames, addr \in 1 .. HeapSize :
           GetHeader(k, addr) /\ UNCHANGED <<vars, responseVars, kvVars>>
    \/ \E k \in SessionKeys, addr \in 1 .. HeapSize :
           GetSessionItem(k, addr) /\ UNCHANGED <<vars, responseVars, kvVars>>
    \/ \E k \in SessionKeys, value \in {OptNone} \cup {OptSome(v) : v \in SessionValues} :
           SetSessionItem(k, value) /\ UNCHANGED <<vars, responseVars, kvVars>>
    \/ InvocationEnds /\ UNCHANGED <<vars, responseVars, kvVars>>

SpecRequestInit == TcpIdle /\ ResponseInit /\ KvInit /\ RequestInit

SpecRequest == SpecRequestInit /\ [][RequestNext]_requestVars

\* a guest that reads and writes session items only, under two keys
SessionNext ==
    \/ \E k \in MoreSessionKeys, addr \in 1 .. HeapSize :
           GetSessionItem(k, addr) /\ UNCHANGED <<vars, responseVars, kvVars>>
    \/ \E k \in MoreSessionKeys, value \in {OptNone} \cup {OptSome(v) : v \in SessionValues} :
           SetSessionItem(k, value) /\ UNCHANGED <<vars, responseVars, kvVars>>
    \/ InvocationEnds /\ UNCHANGED <<vars, responseVars, kvVars>>

SpecSession == SpecRequestInit /\ [][SessionNext]_requestVars

(* ---------------------------------------------------------------------- *)
(* Properties                                                              *)
(* ---------------------------------------------------------------------- *)

\* the value of every occupied slot other than `key` is the same in both slabs
SameElsewhere(old, new, key) ==
    \A j \in SlabKeys(old) \ {key} :
        SlabContains(new, j) /\ SlabGet(new, j) = SlabGet(old, j)

\* the tasks that still own a stream
Pending == {i \in 1 .. Len(ops) : ops[i].st = "pending"}

\* C1: listen(addr, cb) passes the permission check iff TcpListen(addr), with
\* exactly the address passed, is in the configured set.  A denied listen
\* returns -1, adds no listener and no stream slot, and leaves the guest
\* running; every listener, hence every accept callback, belongs to an
\* authorized address.
C1_ListenPermission ==
    /\ [](\A l \in listeners : TcpListen(l.addr) \in perms)
    /\ [][\A addr \in Addrs, cb \in ListenCbs, bindOk \in BOOLEAN :
            Listen(addr, cb, bindOk) =>
                IF TcpListen(addr) \in perms
                THEN ret' # I32(-1)
                ELSE /\ ret' = I32(-1)
                     /\ listeners' = listeners
                     /\ streams' = streams
                     /\ buffers' = buffers
                     /\ ncb' = ncb
                     /\ GuestRunning']_vars

\* C1, its case: a listen was denied (-1) to an application that holds a
\* permission and a listener for another address
C1_Witness ==
    /\ ret = I32(-1)
    /\ TcpListen(GoodAddr) \in perms
    /\ listeners # {}
    /\ GuestRunning

\* C2: while the application is alive, an accepted connection is inserted
\* into a stream slot that was free, no other slot changes, and the listen
\* callback is invoked once with that slot's index as its result.
C2_AcceptCallback ==
    [][\A l \in listeners :
          (Accept(l) /\ alive) =>
              LET k == lastCb'.result
              IN  /\ ~SlabContains(streams, k)
                  /\ SlabContains(streams', k)
                  /\ SlabGet(streams', k) = Some(nextConn)
                  /\ SlabKeys(streams') = SlabKeys(streams) \cup {k}
                  /\ SameElsewhere(streams, streams', k)
                  /\ lastCb'.cb = l.cb
                  /\ ncb' = ncb + 1
                  /\ mode' = "guest"]_vars

\* C2, its case: the second connection got slot 1 while slot 0 was occupied,
\* and the accept callback runs with result 1
C2_Witness ==
    /\ GuestRunning
    /\ ops = <<>>
    /\ ncb = 2
    /\ lastCb.cb \in ListenCbs
    /\ lastCb.result = 1
    /\ SlabContains(streams, 0)
    /\ SlabContains(streams, 1)
    /\ SlabGet(streams, 1) = Some(2)

\* C3: an accepted read leaves None in the slot and hands the stream to its
\* task; while tasks are pending their streams are in no slot and no two
\* tasks own the same stream; when the read callback is invoked with a
\* success result the stream is back in slot stream_id and the result is the
\* index of a buffer slot, free before, that holds exactly the bytes read.
C3_ReadTakeReturn ==
    /\ [](\A i \in Pending :
            /\ \A k \in SlabKeys(streams) : SlabGet(streams, k) # Some(ops[i].conn)
            /\ \A j \in Pending : j # i => ops[j].conn # ops[i].conn)
    /\ [][/\ \A stream_id \in Ids, read_len \in Lens, cb \in ReadCbs :
               (Read(stream_id, read_len, cb) /\ ret' = I32(0)) =>
                   /\ SlabContains(streams', stream_id)
                   /\ SlabGet(streams', stream_id) = None
                   /\ Len(ops') = Len(ops) + 1
                   /\ ops'[Len(ops')].st = "pending"
                   /\ Some(ops'[Len(ops')].conn) = SlabGet(streams, stream_id)
          /\ \A i \in 1 .. Len(ops), data \in SeqsUpTo(MaxLen) :
               (ReadDone(i, TRUE, data) /\ mode' = "guest") =>
                   LET b == lastCb'.result
                   IN  /\ SlabContains(streams', ops[i].sid)
                       /\ SlabGet(streams', ops[i].sid) = Some(ops[i].conn)
                       /\ ~SlabContains(buffers, b)
                       /\ SlabContains(buffers', b)
                       /\ SlabGet(buffers', b) = data
                       /\ SlabKeys(buffers') = SlabKeys(buffers) \cup {b}
                       /\ SameElsewhere(buffers, buffers', b)
                       /\ lastCb'.cb = ops[i].cb]_vars

\* C3, its case: the callback of a read that returned MaxLen bytes runs; the
\* stream is back in slot 0 and the parked buffer is not empty
C3_Witness ==
    /\ GuestRunning
    /\ Len(ops) = 1
    /\ Pending = {}
    /\ ncb = 2
    /\ lastCb.cb \in ReadCbs
    /\ SlabContains(buffers, lastCb.result)
    /\ Len(SlabGet(buffers, lastCb.result)) = MaxLen
    /\ SlabContains(streams, 0)
    /\ SlabGet(streams, 0) = Some(1)

\* C4 as claimed: when the I/O of a read or write fails, the callback gets -1
\* and the slot stream_id holds the stream again.
C4_ErrorReinstalls ==
    [][\A i \in 1 .. Len(ops) :
          ((ReadDone(i, FALSE, <<>>) \/ WriteDone(i, FALSE)) /\ mode' = "guest") =>
              /\ lastCb'.result = -1
              /\ SlabContains(streams', ops[i].sid)
              /\ SlabGet(streams', ops[i].sid) = Some(ops[i].conn)]_vars

\* C5: an accepted write leaves None in the slot while its task is pending;
\* when the write callback is invoked with a success result the stream is
\* back in slot stream_id and the result is the buf_len the guest passed.
C5_WriteTakeReturn ==
    [][/\ \A stream_id \in Ids, buf_ptr \in WritePtrs, buf_len \in Lens, cb \in WriteCbs :
            (Write(stream_id, buf_ptr, buf_len, cb) /\ ret' = I32(0)) =>
                /\ SlabContains(streams', stream_id)
                /\ SlabGet(streams', stream_id) = None
                /\ Len(ops') = Len(ops) + 1
                /\ ops'[Len(ops')].st = "pending"
                /\ ops'[Len(ops')].len = buf_len
                /\ Some(ops'[Len(ops')].conn) = SlabGet(streams, stream_id)
       /\ \A i \in 1 .. Len(ops) :
            (WriteDone(i, TRUE) /\ mode' = "guest") =>
                /\ SlabContains(streams', ops[i].sid)
                /\ SlabGet(streams', ops[i].sid) = Some(ops[i].conn)
                /\ lastCb'.result = ops[i].len
                /\ lastCb'.cb = ops[i].cb
                /\ buffers' = buffers]_vars

\* C5, its case: the callback of a write of one byte runs with result 1 and
\* the stream is back in slot 0
C5_Witness ==
    /\ GuestRunning
    /\ Len(ops) = 1
    /\ Pending = {}
    /\ ncb = 2
    /\ lastCb.cb \in WriteCbs
    /\ lastCb.result = 1
    /\ SlabContains(streams, 0)
    /\ SlabGet(streams, 0) = Some(1)

\* C6 as claimed: while the application is alive, the task of every accepted
\* read or write ends by invoking its callback exactly once.
C6_ExactlyOneCallback ==
    [][\A i \in Pending :
          (alive /\ ops'[i].st # "pending") =>
              /\ ncb' = ncb + 1
              /\ lastCb'.cb = ops[i].cb
              /\ mode' = "guest"]_vars

\* the destination range [dst, dst + len) lies inside the guest memory
InsideMemory(dst, len) == 0 <= dst /\ dst + len <= MemLen

\* C7 as claimed: take_buffer of a parked buffer of length L is fatal when
\* max_len < L as 32-bit signed values, and with max_len >= L (and the
\* destination inside memory) copies the L bytes, frees the slot, returns L.
C7_TakeBufferMaxLen ==
    [][\A buffer_id \in Ids, target_ptr \in Ptrs, max_len \in Lens :
          (TakeBuffer(buffer_id, target_ptr, max_len)
              /\ SlabContains(buffers, AsUsize(buffer_id))) =>
              LET buf == SlabGet(buffers, AsUsize(buffer_id))
              IN  /\ max_len < Len(buf) => panicAt' # "none"
                  /\ (max_len >= Len(buf) /\ InsideMemory(target_ptr, Len(buf))) =>
                        /\ panicAt' = "none"
                        /\ ret' = I32(Len(buf))
                        /\ \A n \in 1 .. Len(buf) : mem'[target_ptr + n] = buf[n]
                        /\ ~SlabContains(buffers', AsUsize(buffer_id))]_vars

\* C8: take_buffer of a parked buffer whose destination range is not inside
\* the guest memory panics, writes no byte of guest memory and returns
\* nothing; no step is ever taken after a panic.
C8_TakeBufferOutOfMemory ==
    /\ [][panicAt = "none"]_vars
    /\ [][\A buffer_id \in Ids, target_ptr \in Ptrs, max_len \in Lens :
            (TakeBuffer(buffer_id, target_ptr, max_len)
                /\ SlabContains(buffers, AsUsize(buffer_id))
                /\ ~InsideMemory(target_ptr,
                                 Len(SlabGet(buffers, AsUsize(buffer_id))))) =>
                /\ panicAt' # "none"
                /\ mem' = mem
                /\ ~ret'.has]_vars

\* C8, its case: the slice expression of take_buffer panicked
C8_Witness == panicAt = "take_buffer:slice"

\* exactly slot `key` of `old` was freed
FreedOnly(old, new, key) ==
    /\ SlabKeys(new) = SlabKeys(old) \ {key}
    /\ SameElsewhere(old, new, key)

\* C9: destroy, release_buffer and take_buffer on a free index panic and
\* change no slot of either table; on an occupied index they free that slot
\* and no other.
C9_RemoveFreeSlot ==
    [][/\ \A stream_id \in Ids :
            Destroy(stream_id) =>
                /\ buffers' = buffers
                /\ IF SlabContains(streams, AsUsize(stream_id))
                   THEN panicAt' = "none" /\ FreedOnly(streams, streams', stream_id)
                   ELSE panicAt' # "none" /\ streams' = streams
       /\ \A buffer_id \in Ids :
            ReleaseBuffer(buffer_id) =>
                /\ streams' = streams
                /\ IF SlabContains(buffers, AsUsize(buffer_id))
                   THEN panicAt' = "none" /\ FreedOnly(buffers, buffers', buffer_id)
                   ELSE panicAt' # "none" /\ buffers' = buffers
       /\ \A buffer_id \in Ids, target_ptr \in Ptrs, max_len \in Lens :
            TakeBuffer(buffer_id, target_ptr, max_len) =>
                /\ streams' = streams
                /\ IF SlabContains(buffers, AsUsize(buffer_id))
                   THEN FreedOnly(buffers, buffers', buffer_id)
                   ELSE panicAt' # "none" /\ buffers' = buffers /\ mem' = mem]_vars

\* C9, its case: take_buffer on an index whose buffer was already removed
C9_Witness ==
    /\ panicAt = "take_buffer:remove"
    /\ Len(buffers.entries) > 0
    /\ SlabKeys(buffers) = {}

\* C10 as claimed: after the application is torn down no callback is invoked
\* and no completion panics.
C10_SilentDrop == ~alive => (panicAt = "none" /\ mode = "idle")

\* C11: a callback is invoked only from the executor, while no guest
\* invocation is on the stack, and one at a time; the call that spawns a task
\* (listen, read, write) returns 0 to a guest invocation that goes on running
\* and invokes nothing itself.
C11_NoReentry ==
    [][/\ ncb' # ncb =>
            /\ mode = "idle"
            /\ mode' = "guest"
            /\ ncb' = ncb + 1
       /\ (Len(ops') > Len(ops) \/ listeners' # listeners) =>
            /\ ret' = I32(0)
            /\ mode = "guest"
            /\ mode' = "guest"
            /\ ncb' = ncb
       /\ \A i \in Pending : ops'[i].st # "pending" => mode = "idle"]_vars

\* C11, its case: the failure callback of a read runs while the task of a
\* second call is still waiting for the executor
C11_Witness ==
    /\ GuestRunning
    /\ lastCb.cb \in ReadCbs
    /\ lastCb.result = -1
    /\ Len(ops) = 2
    /\ Pending # {}

\* the call returned -1 and did nothing else
RejectedSynchronously ==
    /\ ret' = I32(-1)
    /\ panicAt' = "none"
    /\ ncb' = ncb
    /\ streams' = streams
    /\ buffers' = buffers

\* C12 as claimed: listen with an address that does not parse or cannot be
\* bound, and read or write on a free slot or on a slot whose stream is
\* taken, return -1, invoke nothing and leave both tables unchanged.
C12_BadArgumentRejected ==
    [][/\ \A addr \in Addrs, cb \in ListenCbs, bindOk \in BOOLEAN :
            (/\ Listen(addr, cb, bindOk)
             /\ ~ListenDenied(perms, addr)
             /\ (~ParsesAsSocketAddr(addr) \/ ~bindOk \/ AlreadyBound(addr))) =>
                RejectedSynchronously
       /\ \A stream_id \in Ids, read_len \in Lens, cb \in ReadCbs :
            (/\ Read(stream_id, read_len, cb)
             /\ (\/ ~SlabContains(streams, AsUsize(stream_id))
                 \/ SlabGet(streams, AsUsize(stream_id)) = None)) =>
                RejectedSynchronously
       /\ \A stream_id \in Ids, buf_ptr \in WritePtrs, buf_len \in Lens, cb \in WriteCbs :
            (/\ Write(stream_id, buf_ptr, buf_len, cb)
             /\ ExtractBytesOk(buf_ptr, buf_len)
             /\ (\/ ~SlabContains(streams, AsUsize(stream_id))
                 \/ SlabGet(streams, AsUsize(stream_id)) = None)) =>
                RejectedSynchronously]_vars

\* C19 as claimed: while the application is alive, the completion of a read
\* or write whose stream slot was destroyed in the meantime raises no fault,
\* does not bring the slot back and does not replace a stream that a later
\* connection placed in the reused index.
C19_DestroyPending ==
    [][\A i \in Pending :
          (alive /\ ops'[i].st # "pending") =>
              /\ panicAt' = "none"
              /\ ~SlabContains(streams, ops[i].sid) => ~SlabContains(streams', ops[i].sid)
              /\ \A k \in SlabKeys(streams) :
                    SlabGet(streams, k) # None =>
                        /\ SlabContains(streams', k)
                        /\ SlabGet(streams', k) = SlabGet(streams, k)]_vars

\* C20 as claimed: while the reactor runs, an occupied stream slot that holds
\* a stream has no pending task owning that stream, and an occupied slot
\* that holds none has exactly one pending task that took its stream.
C20_StreamTableInvariant ==
    panicAt = "none" =>
        \A k \in SlabKeys(streams) :
            IF SlabGet(streams, k) # None
            THEN \A i \in Pending : Some(ops[i].conn) # SlabGet(streams, k)
            ELSE Cardinality({i \in Pending : ops[i].sid = k}) = 1

\* C13: a response has at most one chunk receiver, the one whose provider
\* the guest got; the first stream call installs it and returns the provider,
\* every later stream call panics and leaves response and providers as they are.
C13_SingleStream ==
    /\ [](/\ Cardinality(providers) <= 1
          /\ providers = {resp.stream_rx[i] : i \in 1 .. Len(resp.stream_rx)})
    /\ [][Stream =>
            IF resp.stream_rx = OptNone
            THEN /\ respAt' = "building"
                 /\ resp'.stream_rx # OptNone
                 /\ providers' = {resp'.stream_rx[1]}
            ELSE /\ respAt' = "panic"
                 /\ resp' = resp
                 /\ providers' = providers]_responseVars

\* C13, its case: the second stream call on a response panicked, the first
\* receiver is still installed
C13_Witness ==
    /\ respAt = "panic"
    /\ resp.stream_rx = OptSome(1)
    /\ providers = {1}

\* neither a file path nor a stream was set on r
PlainResponse(r) == r.file = OptNone /\ r.stream_rx = OptNone

\* the Content-Length lines of a header set
ContentLengthOf(headers) == {h.lines : h \in {x \in headers : x.name = "Content-Length"}}

\* status and body of the response are those of the last call that set them
LastSetWins ==
    /\ resp.status = 200
    /\ resp.body = <<>>
    /\ [][/\ \A status \in Statuses : SetStatus(status) => resp'.status = status
          /\ resp'.status # resp.status => \E status \in Statuses : SetStatus(status)
          /\ \A data_null \in BOOLEAN, data \in SeqsUpTo(MaxBody) :
                SetBody(data_null, data) => resp'.body = (IF data_null THEN <<>> ELSE data)
          /\ \A content \in SeqsUpTo(MaxBody) :
                ConsumeRenderedTemplate(content) => resp'.body = content
          /\ resp'.body # resp.body =>
                \/ \E data_null \in BOOLEAN, data \in SeqsUpTo(MaxBody) : SetBody(data_null, data)
                \/ \E content \in SeqsUpTo(MaxBody) : ConsumeRenderedTemplate(content)]_responseVars

\* the reply of a plain response has the body last set and its length
PlainReplyBody ==
    [][\A if_none_match \in IfNoneMatches :
          (IntoHyperResponse(if_none_match) /\ PlainResponse(resp)) =>
              /\ hyperResp'[1].kind = "bytes"
              /\ hyperResp'[1].bytes = resp.body
              /\ ContentLengthOf(hyperResp'[1].headers) = {{ToString(Len(resp.body))}}]_responseVars

\* C14 as claimed: the reply of a plain response carries the status last set
\* (200 when never set), the body last set (empty when never set) and a
\* Content-Length of that body's length.
C14_PlainReplyAsSet ==
    /\ LastSetWins
    /\ PlainReplyBody
    /\ [][\A if_none_match \in IfNoneMatches :
            (IntoHyperResponse(if_none_match) /\ PlainResponse(resp)) =>
                hyperResp'[1].status = resp.status]_responseVars

\* C14, amended: as claimed when the status last set is a valid status code
\* (100..599); for any other status value the reply carries 500.
C14_PlainReplyValidStatus ==
    /\ LastSetWins
    /\ PlainReplyBody
    /\ [][\A if_none_match \in IfNoneMatches :
            (IntoHyperResponse(if_none_match) /\ PlainResponse(resp)) =>
                hyperResp'[1].status =
                    IF resp.status \in 100 .. 599 THEN resp.status ELSE 500]_responseVars

\* C14, its case: a plain response with a status out of range, a body of
\* MaxBody bytes and a Content-Length header added by the guest was
\* materialized
C14_Witness ==
    /\ respAt = "consumed"
    /\ PlainResponse(resp)
    /\ resp.status = 600
    /\ Len(resp.body) = MaxBody
    /\ ContentLengthOf(resp.headers) = {{"9"}}
    /\ hyperResp[1].status = 500

\* Op a was resolved before Op b was sent
Before(a, b) == a \in kvOps[b].after

\* Op o writes key k (as a string or as a hash)
WritesKey(o, k) ==
    kvOps[o].cmd.k = k /\ kvOps[o].cmd.tag \in {"Set", "Remove", "Hset", "Hremove"}

\* no write to key k other than those of `chain` is concurrent with the
\* chain that starts with Op first and ends with Op last
Quiet(chain, first, last, k) ==
    \A o \in (1 .. Len(kvOps)) \ chain :
        WritesKey(o, k) => (Before(o, first) \/ Before(last, o))

\* Ops s and g are `write` then `read` on the same key (and field), both
\* futures resolved to Ok
Pair(s, g, write, read) ==
    /\ kvOps[s].cmd.tag = write
    /\ kvOps[g].cmd.tag = read
    /\ kvOps[g].cmd.k = kvOps[s].cmd.k
    /\ kvOps[g].cmd.mk = kvOps[s].cmd.mk
    /\ Resolved(g)
    /\ FutureOf(s).ok
    /\ FutureOf(g).ok

\* C15 as claimed: a get sent after set(k, v) completed gives v, a get sent
\* after set(k, v) and then remove(k) completed gives absent, for keys and
\* for hash fields, whatever happens to other keys.
C15_RoundTrip ==
    \A s \in 1 .. Len(kvOps), g \in 1 .. Len(kvOps) :
        /\ (/\ Before(s, g)
            /\ Pair(s, g, "Set", "Get") \/ Pair(s, g, "Hset", "Hget")
            /\ Quiet({s, g}, s, g, kvOps[s].cmd.k)) =>
                FutureOf(g).item = OptSome(kvOps[s].cmd.v)
        /\ \A r \in 1 .. Len(kvOps) :
              (/\ Before(s, r)
               /\ Before(r, g)
               /\ FutureOf(r).ok
               /\ kvOps[r].cmd.k = kvOps[s].cmd.k
               /\ kvOps[r].cmd.mk = kvOps[s].cmd.mk
               /\ \/ Pair(s, g, "Set", "Get") /\ kvOps[r].cmd.tag = "Remove"
                  \/ Pair(s, g, "Hset", "Hget") /\ kvOps[r].cmd.tag = "Hremove"
               /\ Quiet({s, r, g}, s, g, kvOps[s].cmd.k)) =>
                  FutureOf(g).item = OptNone

\* C16 as claimed: a command that ended with a backend error resolves the
\* caller's future to an error.
C16_ErrorDelivered ==
    \A i \in 1 .. Len(kvOps) :
        (Resolved(i) /\ kvOps[i].result = OpError) => ~FutureOf(i).ok

\* C17 as claimed: while the worker runs, the job of an Op ends with one
\* reply on that Op's channel, the result of its own command, and touches no
\* other Op's channel.
C17_OwnReply ==
    [][\A i \in 1 .. Len(kvOps), conn_ok \in BOOLEAN, cmd_ok \in BOOLEAN :
          (Job(i, conn_ok, cmd_ok) /\ worker = "running") =>
              /\ kvOps'[i].at = "replied"
              /\ kvOps'[i].result \in {OpError, CommandResult(redis, kvOps[i].cmd)}
              /\ \A j \in (1 .. Len(kvOps)) \ {i} : kvOps'[j] = kvOps[j]]_kvVars

\* C18 as claimed: every pointer returned to the guest in the current
\* invocation still points to a live host buffer holding the bytes it held
\* when it was returned.
C18_PointersStayValid ==
    \A h \in handed :
        h.ptr.region = "heap" => heap[h.ptr.addr] = OptSome(h.bytes)

\* C21: the buffer a successful read(stream_id, max_len, cb) parks has a
\* length n with 0 <= n <= max_len, a parked buffer keeps its bytes until it
\* is removed, and take_buffer fails its size check only when the buffer is
\* longer than its max_len argument: take_buffer with the max_len of the read
\* passes the size check.
C21_ReadBufferFits ==
    [][/\ \A i \in 1 .. Len(ops), data \in SeqsUpTo(MaxLen) :
             (ReadDone(i, TRUE, data) /\ mode' = "guest") =>
                 LET n == Len(SlabGet(buffers', lastCb'.result))
                 IN  /\ 0 <= ops[i].len
                     /\ 0 <= n
                     /\ n <= ops[i].len
                     /\ ~TooLong(n, ops[i].len)
       /\ \A k \in SlabKeys(buffers) \cap SlabKeys(buffers') :
             SlabGet(buffers', k) = SlabGet(buffers, k)
       /\ \A buffer_id \in Ids, target_ptr \in Ptrs, max_len \in Lens :
             (TakeBuffer(buffer_id, target_ptr, max_len)
                 /\ SlabContains(buffers, AsUsize(buffer_id))
                 /\ max_len >= Len(SlabGet(buffers, AsUsize(buffer_id)))) =>
                 panicAt' # "take_buffer:max_len"]_vars

\* a read of MaxLen bytes filled its buffer and take_buffer copied it out
C21_Witness ==
    /\ panicAt = "none"
    /\ ret = I32(MaxLen)
    /\ buffers.entries # <<>>
    /\ SlabKeys(buffers) = {}
    /\ \E p \in 1 .. MemLen : mem[p] \in Bytes

\* C22: materializing a response picks its body by precedence, whatever the
\* order of the calls that built it: with a file path set the reply is the
\* file (no stream, no byte body); otherwise with a stream opened the reply
\* body is the stream and its Content-Length lines are the guest's own (none
\* is computed from the byte body); otherwise the byte body is sent.
C22_BodyPrecedence ==
    [][\A if_none_match \in IfNoneMatches :
          IntoHyperResponse(if_none_match) =>
              LET reply == hyperResp'[1]
              IN  /\ resp.file # OptNone =>
                        /\ reply.kind = "file"
                        /\ reply.path = resp.file
                        /\ reply.rx = OptNone
                        /\ reply.bytes = <<>>
                  /\ (resp.file = OptNone /\ resp.stream_rx # OptNone) =>
                        /\ reply.kind = "stream"
                        /\ reply.rx = resp.stream_rx
                        /\ reply.path = OptNone
                        /\ reply.bytes = <<>>
                        /\ ContentLengthOf(reply.headers) = ContentLengthOf(resp.headers)
                  /\ (resp.file = OptNone /\ resp.stream_rx = OptNone) =>
                        /\ reply.kind = "bytes"
                        /\ reply.bytes = resp.body
                        /\ reply.rx = OptNone
                        /\ reply.path = OptNone]_responseVars

\* a response with a file path, an opened stream and a byte body was
\* materialized as the file
C22_Witness ==
    /\ respAt = "consumed"
    /\ resp.file # OptNone
    /\ resp.stream_rx # OptNone
    /\ resp.body # <<>>
    /\ hyperResp[1].kind = "file"

\* a response with an opened stream and a byte body, no file path, was
\* materialized as the stream
C22_WitnessStream ==
    /\ respAt = "consumed"
    /\ resp.file = OptNone
    /\ resp.stream_rx # OptNone
    /\ resp.body # <<>>
    /\ hyperResp[1].kind = "stream"

\* the item of the session under key k, as get_session_item finds it
ItemOf(sess, k) == IF sess = OptNone THEN OptNone ELSE MapGet(sess[1], k)

\* every value a set_session_item can pass: null, or a string
SetValues == {OptNone} \cup {OptSome(v) : v \in SessionValues}

\* C23: with a session, set_session_item(k, v) makes v the item under k and
\* set_session_item(k, null) removes it, the items under other keys stay as
\* they are, and nothing else changes an item; get_session_item(k) returns a
\* pointer to a copy of the item under k, or null (no pointer) when there is
\* none. Without a session, set_session_item changes nothing and
\* get_session_item returns null for every key.
C23_SessionItems ==
    [][/\ \A k \in MoreSessionKeys, value \in SetValues :
             SetSessionItem(k, value) =>
                 /\ session # OptNone => ItemOf(session', k) = value
                 /\ session = OptNone => session' = OptNone
                 /\ \A other \in MoreSessionKeys \ {k} :
                       ItemOf(session', other) = ItemOf(session, other)
       /\ session' # session =>
             \E k \in MoreSessionKeys, value \in SetValues : SetSessionItem(k, value)
       /\ \A k \in MoreSessionKeys, addr \in 1 .. HeapSize :
             GetSessionItem(k, addr) =>
                 /\ session' = session
                 /\ IF ItemOf(session, k) = OptNone
                    THEN handed' = handed
                    ELSE /\ handed' = handed \cup {[ptr |-> HeapPtr(addr),
                                                    bytes |-> ItemOf(session, k)[1]]}
                         /\ heap'[addr] = ItemOf(session, k)]_requestVars

\* "user" was read as "u1", set to "u2" and read again, "cart" has no item:
\* the guest holds a copy of the last value of "user"
C23_Witness ==
    /\ session # OptNone
    /\ ItemOf(session, "user") = OptSome("u2")
    /\ ItemOf(session, "cart") = OptNone
    /\ \E h \in handed : h.bytes = "u1"
    /\ \E h \in handed : h.bytes = "u2" /\ heap[h.ptr.addr] = OptSome("u2")

\* C24 as claimed: the job of a command runs on the backend only after the
\* job of every command submitted before it has ended.
C24_SubmissionOrder ==
    [][\A i \in 1 .. Len(kvOps), conn_ok \in BOOLEAN, cmd_ok \in BOOLEAN :
          Job(i, conn_ok, cmd_ok) => \A j \in 1 .. i - 1 : Resolved(j)]_kvVars

\* the Stop that Drop sent is at position s of the queue
StopIs(s) == s \in 1 .. Len(kvOps) /\ kvOps[s].cmd = StopCommand

\* Stop was sent and Op i was sent before it; Op i was sent after it
BeforeStop(i) == i \in Submitted /\ \E s \in 1 .. Len(kvOps) : StopIs(s) /\ i < s
AfterStop(i) == i \in Submitted /\ \E s \in 1 .. Len(kvOps) : StopIs(s) /\ i > s

\* C25 as claimed: dropping the storage queues one Stop; the worker has
\* terminated exactly when it dequeued Stop, and by then every command sent
\* before Stop was handed to the pool; a command sent before Stop is never
\* left without its reply; a command sent after Stop is never handed to the
\* pool and never gets a reply value.
C25_Shutdown ==
    /\ storageDropped <=> \E s \in 1 .. Len(kvOps) : StopIs(s)
    /\ \A s, t \in 1 .. Len(kvOps) : (StopIs(s) /\ StopIs(t)) => s = t
    /\ worker = "stopped" <=> \E s \in 1 .. Len(kvOps) : StopIs(s) /\ kvOps[s].at = "stop"
    /\ \A i \in 1 .. Len(kvOps) :
          /\ BeforeStop(i) =>
                /\ worker = "stopped" => kvOps[i].at \in {"pool", "replied"}
                /\ kvOps[i].at \in {"mailbox", "pool", "replied"}
                /\ kvOps[i].at = "replied" <=> kvOps[i].result # NoResult
          /\ AfterStop(i) =>
                /\ kvOps[i].at \in {"mailbox", "canceled", "send_panic"}
                /\ kvOps[i].result = NoResult

====
